---- MODULE Spec2Model ----
(***************************************************************************)
(* Execution engine of the online code compiler: the screener              *)
(* (SecurityService), the orchestrator (CodeExecutionService.executeCode)  *)
(* and the sandbox supervisor (DockerService), as a state machine.  One    *)
(* action is the code that runs between two awaits of a handler; the       *)
(* container runtime and the file system are the environment, and each     *)
(* request to them completes or fails.                                     *)
(***************************************************************************)
EXTENDS Integers, Sequences, FiniteSets, TLC

\* ------------------------------------------------------------------ bounds

\* Executions of the main specification.
NumExecs == 1
\* Environment faults (a failing request to the runtime, the file system or
\* the record store) injected in one behaviour.
MaxFaults == 2
\* External killExecution requests in one behaviour.
MaxKills == 1
\* Length, in units, of the sources the screener specification draws.
MaxLen == 2
\* Calls that are still preparing their container when another call is
\* admitted, in the specification of many concurrent calls.
CapWindow == 2
\* Executions of the specification of two concurrent calls.
PairExecs == 2
\* Requests of the specification of what reaches the workspace.
WrittenExecs == 2
\* Characters in one chunk the process writes, and chunks it writes at most.
ChunkLength == 4000
MaxChunks == 3
\* Changes of the calendar day.
MaxDays == 1
\* Units in a source that is sanitized.
SanitizeLen == 6

\* --------------------------------------------------------------- constants

MAX_CONCURRENT_EXECUTIONS == 10
MAX_CODE_LENGTH == 50000
MAX_OUTPUT_LENGTH == 10000

SUPPORTED_LANGUAGES == {"python", "javascript", "cpp", "java"}

EXECUTION_STATUS ==
    [SUCCESS |-> "success", ERROR |-> "error", TIMEOUT |-> "timeout",
     MEMORY_LIMIT_EXCEEDED |-> "memory_limit_exceeded",
     COMPILATION_ERROR |-> "compilation_error",
     RUNTIME_ERROR |-> "runtime_error"]

\* The generic forbidden patterns, in the order of the array.  A source is a
\* sequence of lexical units; a unit is either the canonical text one of
\* these patterns matches, or "x" (text no pattern matches).
FORBIDDEN_PATTERNS ==
    << "import os", "import sys", "import subprocess", "import socket",
       "require('fs')", "require('child_process')", "require('net')",
       "#include <stdlib.h>", "#include <unistd.h>",
       "system(", "exec(", "eval(", "Runtime.getRuntime().exec",
       "ProcessBuilder", "../", "/etc/passwd", "/proc/" >>

PatternIds == 1..Len(FORBIDDEN_PATTERNS)

\* Launch command class of a language: compile-then-run in one shell
\* command for cpp and java, a single interpreter call otherwise.
containerConfigs ==
    [l \in SUPPORTED_LANGUAGES |->
        [compiles |-> l \in {"cpp", "java"},
         timeout  |-> IF l \in {"cpp", "java"} THEN 45000 ELSE 30000]]

\* ---------------------------------------------------------------- screener

Min(S) == CHOOSE x \in S : \A y \in S : x <= y

\* String.prototype.trim on a sequence of units (the units "\\0", "\\r",
\* "\\n" and " " are single characters, "\\r\\n" is the pair): white space and line terminators at both ends
\* are removed.
Trim(code) ==
    LET inner == {i \in 1..Len(code) : code[i] \notin {" ", "\\n", "\\r", "\\r\\n"}}
    IN  IF inner = {} THEN <<>>
        ELSE SubSeq(code, Min(inner),
                    CHOOSE i \in inner : \A j \in inner : j <= i)

\* RegExp.prototype.test of a pattern object that carries the g flag: the
\* search starts at the object's lastIndex (0-based); a match sets lastIndex
\* to the end of the match, a failure resets it to 0.
RegExpTest(p, code, li) ==
    LET hits == { i \in (li + 1)..Len(code) : code[i] = FORBIDDEN_PATTERNS[p] }
    IN  IF hits = {} THEN [found |-> FALSE, lastIndex |-> 0]
        ELSE [found |-> TRUE, lastIndex |-> Min(hits)]

\* A regular expression built afresh for the call (new RegExp(...)): it
\* searches from 0.
Has(code, unit) == \E i \in 1..Len(code) : code[i] = unit

validatePythonCode(code) ==
    { <<"Dangerous import detected", u>> :
        u \in { v \in {"import os", "import sys", "import subprocess",
                       "import socket"} : Has(code, v) } }
    \cup { <<"Dangerous function detected", u>> :
        u \in { v \in {"exec(", "eval("} : Has(code, v) } }

validateJavaScriptCode(code) ==
    { <<"Dangerous module detected", u>> :
        u \in { v \in {"require('fs')", "require('child_process')",
                       "require('net')"} : Has(code, v) } }

validateCppCode(code) ==
    { <<"Dangerous include detected", u>> :
        u \in { v \in {"#include <stdlib.h>", "#include <unistd.h>"} :
                    Has(code, v) } }
    \cup { <<"Dangerous function detected", u>> :
        u \in { v \in {"system(", "exec("} : Has(code, v) } }

\* The method pattern for Runtime.getRuntime().exec escapes the dots only,
\* so "()" is an empty group and the text "Runtime.getRuntime().exec" is not
\* matched by it; ProcessBuilder is.
validateJavaCode(code) ==
    { <<"Dangerous method detected", u>> :
        u \in { v \in {"ProcessBuilder"} : Has(code, v) } }

LanguageErrors(code, language) ==
    CASE language = "python" -> validatePythonCode(code)
      [] language = "javascript" -> validateJavaScriptCode(code)
      [] language = "cpp" -> validateCppCode(code)
      [] language = "java" -> validateJavaCode(code)
      [] OTHER -> {}

\* The loop over FORBIDDEN_PATTERNS: every pattern object is tested once,
\* from its own lastIndex, and keeps the lastIndex the test leaves.
PatternLoop(code, li) ==
    [p \in PatternIds |-> RegExpTest(p, code, li[p])]

\* SecurityService.validateCode(code, language) called with the pattern
\* objects' lastIndex values li: the verdict, the reasons and the lastIndex
\* values after the call.
validateCode(code, language, li) ==
    IF Trim(code) = <<>>
    THEN [isValid |-> FALSE, errors |-> {<<"Code cannot be empty", "">>},
          lastIndex |-> li]
    ELSE LET t == PatternLoop(code, li)
             errs == (IF Len(code) > MAX_CODE_LENGTH
                      THEN {<<"Code exceeds maximum length", "">>} ELSE {})
                     \cup { <<"Code contains forbidden pattern", FORBIDDEN_PATTERNS[p]>> :
                              p \in { q \in PatternIds : t[q].found } }
                     \cup LanguageErrors(code, language)
         IN  [isValid |-> errs = {}, errors |-> errs,
              lastIndex |-> [p \in PatternIds |-> t[p].lastIndex]]


\* validateInput builds its patterns afresh on every call, so it keeps no
\* state.  An input is "" (absent), "text", or "<" (a unit matching [<>]).
validateInput(input) ==
    IF input = "<"
    THEN [isValid |-> FALSE,
          errors |-> {<<"Input contains potentially malicious content", "">>}]
    ELSE [isValid |-> TRUE, errors |-> {}]

\* ------------------------------------------------------------------- state

VARIABLES
    pc,               \* position of each executeCode call (its pending await)
    req,              \* the request of each call: language, code, input,
                      \* the caller (user) and the timeout of its body
    lastIndex,        \* lastIndex of each FORBIDDEN_PATTERNS object
    lastCall,         \* the latest validateCode call and its answer
    verdict,          \* what validateCode answered for the call's source
    tempDir,          \* local tempDir of DockerService.executeCode is set
    dir,              \* the directory code_exec_<executionId> exists
    container,        \* local container of DockerService.executeCode is set
    cstate,           \* the container in the runtime
    exit,             \* its exit code and why it stopped
    activeContainers, \* DockerService.activeContainers (its keys)
    timer,            \* the deadline timer of waitForContainerCompletion
    sub,              \* the attach/wait part of waitForContainerCompletion
    caught,           \* the error executeCode's catch block received
    waited,           \* the exit code waitForContainerCompletion resolved with
    stats,            \* what getContainerStats returned
    result,           \* what DockerService.executeCode returned
    response,         \* what CodeExecutionService.executeCode returned
    kpc,              \* position of a killContainer call for the execution
    faults,           \* environment faults so far
    kills,            \* killExecution requests so far
    User,             \* the users collection: the stored document of each user
    now,              \* the calendar day (new Date().toDateString())
    obs               \* history of each execution, read by the properties

vars == <<pc, req, lastIndex, lastCall, verdict, tempDir, dir, container, cstate, exit,
          activeContainers, timer, sub, caught, waited, stats, result,
          response, kpc, faults, kills, User, now, obs>>

Execs == DOMAIN pc

\* req.user of a request without a token.
NoUser == [role |-> "none", executionCount |-> 0, dailyExecutionCount |-> 0,
           lastExecutionDate |-> 0]

\* userSchema.methods.hasExceededDailyLimit
DailyLimit(role) == IF role = "admin" THEN 1000 ELSE 100

hasExceededDailyLimit(user) == user.dailyExecutionCount >= DailyLimit(user.role)

\* userSchema.methods.updateExecutionCount on a loaded document, up to save()
updateExecutionCount(user, today) ==
    [user EXCEPT !.dailyExecutionCount =
                     (IF today # user.lastExecutionDate THEN 0 ELSE @) + 1,
                 !.executionCount = @ + 1,
                 !.lastExecutionDate = today]

\* Executions a user has run today when the first call arrives: one below
\* the limit of the role.
AlreadyRun(role) == DailyLimit(role) - 1

NoRequest == [language |-> "", code |-> <<>>, input |-> "", user |-> "",
              timeout |-> 0, userInfo |-> NoUser]
NoVerdict == [isValid |-> FALSE, errors |-> {<<"not screened", "">>}]
NoExit == [code |-> -1, cause |-> "none"]
NoStats == [memory |-> "unknown"]
NoResult == [status |-> "none", exitCode |-> -1, memory |-> "unknown", error |-> "none",
             output |-> <<>>]
NoResponse == [success |-> FALSE, status |-> "none", exitCode |-> -1,
               error |-> <<"none", {}>>]
NoCall == [calls |-> 0, code |-> <<>>, language |-> "", isValid |-> FALSE]
NoText == <<"(nothing written)">>
\* deadline: where the container was when the deadline timer fired;
\* killer, killAt: who asked killExecution and where the container was then;
\* fileName, written: the source file of the workspace; settled: how the
\* promise of waitForContainerCompletion was settled; deadlineMs: the delay
\* the deadline timer was armed with; wrote: what the process has written to
\* its stdout; stream: the chunks of the attached stream not yet handed to the
\* stdout callback; output: the callback's buffer; reaper: whose
\* cleanupContainer removed the container; again: cleanupTempDirectory was
\* called once more after executeCode returned; day: the day the call
\* arrived.
NoObs == [deadline |-> "none", rmdirFailed |-> FALSE, teardownFailed |-> FALSE,
          screened |-> FALSE, killer |-> "nobody", killAt |-> "none",
          fileName |-> "none", written |-> NoText, settled |-> "none",
          deadlineMs |-> 0, wrote |-> <<>>, stream |-> <<>>, output |-> <<>>,
          reaper |-> "nobody", again |-> FALSE, day |-> -1]

InitFor(E) ==
    /\ pc = [e \in E |-> "idle"]
    /\ req = [e \in E |-> NoRequest]
    /\ lastIndex = [p \in PatternIds |-> 0]
    /\ lastCall = NoCall
    /\ verdict = [e \in E |-> NoVerdict]
    /\ tempDir = [e \in E |-> FALSE]
    /\ dir = [e \in E |-> FALSE]
    /\ container = [e \in E |-> FALSE]
    /\ cstate = [e \in E |-> "none"]
    /\ exit = [e \in E |-> NoExit]
    /\ activeContainers = {}
    /\ timer = [e \in E |-> "unset"]
    /\ sub = [e \in E |-> "none"]
    /\ caught = [e \in E |-> "none"]
    /\ waited = [e \in E |-> NoExit.code]
    /\ stats = [e \in E |-> NoStats]
    /\ result = [e \in E |-> NoResult]
    /\ response = [e \in E |-> NoResponse]
    /\ kpc = [e \in E |-> "idle"]
    /\ faults = 0
    /\ kills = 0
    /\ User = [u \in {"u1"} |->
                  [role |-> "user", executionCount |-> AlreadyRun("user"),
                   dailyExecutionCount |-> AlreadyRun("user"),
                   lastExecutionDate |-> 0]]
    /\ now = 0
    /\ obs = [e \in E |-> NoObs]

Init == InitFor(1..NumExecs)


\* ------------------------------------------------------------ captured output

\* A text is a sequence of pieces: the first len characters of the n-th chunk
\* the process wrote, whose content is unit.  A chunk has ChunkLength
\* characters without white space: plain text, or one path under /tmp.
ChunkUnits == {"text", "/tmp/f"}

RECURSIVE Length(_)
Length(text) ==
    IF text = <<>> THEN 0 ELSE Head(text).len + Length(Tail(text))

\* text.substring(0, n)
RECURSIVE Substring(_, _)
Substring(text, n) ==
    IF text = <<>> \/ n = 0 THEN <<>>
    ELSE IF Head(text).len <= n
    THEN <<Head(text)>> \o Substring(Tail(text), n - Head(text).len)
    ELSE <<[Head(text) EXCEPT !.len = n]>>

\* The three replace calls of sanitizeOutput, on one piece: a run of
\* non-space characters that starts with /tmp/, /home/ or /var/ is replaced.
Redact(piece) ==
    IF piece.unit = "/tmp/f" THEN [piece EXCEPT !.unit = "[temp_file]", !.len = 11]
    ELSE IF piece.unit = "/home/f" THEN [piece EXCEPT !.unit = "[user_file]", !.len = 11]
    ELSE IF piece.unit = "/var/f" THEN [piece EXCEPT !.unit = "[system_file]", !.len = 13]
    ELSE piece

Redacted(text) == [i \in 1..Len(text) |-> Redact(text[i])]

\* '\n... (output truncated)'
Marker == [n |-> 0, unit |-> "\n... (output truncated)", len |-> 23]

\* Helpers.sanitizeOutput
sanitizeOutput(output) ==
    IF output = <<>> THEN <<>>
    ELSE IF Length(Redacted(output)) > MAX_OUTPUT_LENGTH
    THEN Append(Substring(Redacted(output), MAX_OUTPUT_LENGTH), Marker)
    ELSE Redacted(output)


\* ------------------------------------------------- results and error mapping

\* The words of an error message that getErrorStatus and formatError look
\* for.  "Execution timeout" is the deadline's rejection; "request failed"
\* stands for the message of a failed runtime or file-system request.
MessageWords(message) ==
    IF message = "Execution timeout" THEN {"timeout"} ELSE {}

getErrorStatus(message) ==
    IF "timeout" \in MessageWords(message) THEN EXECUTION_STATUS.TIMEOUT
    ELSE IF "memory" \in MessageWords(message)
         THEN EXECUTION_STATUS.MEMORY_LIMIT_EXCEEDED
    ELSE IF "compile" \in MessageWords(message)
         THEN EXECUTION_STATUS.COMPILATION_ERROR
    ELSE EXECUTION_STATUS.ERROR

\* What the process wrote to stderr, by the way it ended.
Stderr(cause) ==
    CASE cause = "compile" -> "compiler diagnostics"
      [] cause = "exit1" -> "traceback"
      [] OTHER -> ""

\* The status of the object executeCode returns after the wait resolved.
ExitStatusMut(exitCode) ==
    IF exitCode >= 0 THEN EXECUTION_STATUS.SUCCESS
    ELSE EXECUTION_STATUS.RUNTIME_ERROR

ExitStatus(exitCode) ==
    IF exitCode = 0 THEN EXECUTION_STATUS.SUCCESS
    ELSE EXECUTION_STATUS.RUNTIME_ERROR

\* The object DockerService.executeCode returns from its try block.
SuccessReturn(e) ==
    [status |-> ExitStatus(waited[e]), exitCode |-> waited[e],
     memory |-> stats[e].memory, error |-> Stderr(exit[e].cause),
     output |-> sanitizeOutput(obs[e].output)]

\* The object it returns from its catch block.
ErrorReturn(message) ==
    [status |-> getErrorStatus(message), exitCode |-> -1,
     memory |-> "host", error |-> message, output |-> <<>>]

createErrorResponse(status, errorMessage) ==
    [success |-> FALSE, status |-> status, exitCode |-> -1,
     error |-> errorMessage]

validateLanguage(language) == language \in SUPPORTED_LANGUAGES

\* code.replace(/\r\n/g, '\n').replace(/\r/g, '\n')
RECURSIVE NormalizeLineEndings(_)
NormalizeLineEndings(code) ==
    IF code = <<>> THEN <<>>
    ELSE IF Head(code) = "\\r" /\ Len(code) >= 2 /\ code[2] = "\\n"
    THEN <<"\\n">> \o NormalizeLineEndings(Tail(Tail(code)))
    ELSE IF Head(code) \in {"\\r\\n", "\\r"}
    THEN <<"\\n">> \o NormalizeLineEndings(Tail(code))
    ELSE <<Head(code)>> \o NormalizeLineEndings(Tail(code))

\* code.replace(/\n{3,}/g, '\n\n')
RECURSIVE CollapseNewlines(_)
CollapseNewlines(code) ==
    IF code = <<>> THEN <<>>
    ELSE IF Len(code) >= 3 /\ \A i \in 1..3 : code[i] = "\\n"
    THEN CollapseNewlines(Tail(code))
    ELSE <<Head(code)>> \o CollapseNewlines(Tail(code))

\* code.split('\n').map(line => line.trimEnd()).join('\n'): the spaces at
\* the end of each line are removed.
RECURSIVE TrimEndLines(_)
TrimEndLines(code) ==
    IF code = <<>> THEN <<>>
    ELSE LET rest == TrimEndLines(Tail(code))
         IN  IF Head(code) = " " /\ (rest = <<>> \/ Head(rest) = "\\n")
             THEN rest ELSE <<Head(code)>> \o rest

\* SecurityService.sanitizeCode
sanitizeCode(code) ==
    IF code = <<>> THEN <<>>
    ELSE Trim(TrimEndLines(CollapseNewlines(NormalizeLineEndings(
             SelectSeq(code, LAMBDA u : u # "\\0")))))

\* ------------------------------------------------------------ orchestrator

\* The record of a validateCode call (its count saturates at 2: a first call
\* and a later one).
Called(code, language, v) ==
    [calls |-> IF lastCall.calls < 2 THEN lastCall.calls + 1 ELSE 2,
     code |-> code, language |-> language, isValid |-> v.isValid]

\* The requests the main specification submits.  A user is "" (anonymous,
\* userInfo is null) or an authenticated user's id; a timeout of 0 stands
\* for a body without timeout.
Languages == SUPPORTED_LANGUAGES \cup {"ruby"}
Sources == { <<>>, <<"x">>, <<"../">> }
Inputs == { "", "text", "<" }
Users == { "", "u1" }
NoTimeout == 0

\* Line 27 of the orchestrator: the screener's verdict ends the call.
CodeRejectedMut(v) == FALSE

CodeRejected(v) == ~v.isValid

\* CodeExecutionService.executeCode from its entry to its first await: the
\* checks of the request, and DockerService.executeCode up to the pending
\* mkdir.  Calls are numbered in the order they arrive.
ExecuteCode(e, language, code, input, user, timeout) ==
    /\ pc[e] = "idle"
    /\ \A f \in Execs : f < e => pc[f] # "idle"
    /\ req' = [req EXCEPT ![e] = [language |-> language, code |-> code,
                                 input |-> input, user |-> user,
                                 timeout |-> timeout,
                                 userInfo |-> IF user = "" THEN NoUser
                                              ELSE User[user]]]
    /\ LET v == validateCode(code, language, lastIndex)
           i == validateInput(input)
       IN  IF ~validateLanguage(language)
           THEN /\ response' = [response EXCEPT ![e] =
                        createErrorResponse(EXECUTION_STATUS.ERROR,
                                            <<"Unsupported language", {}>>)]
                /\ pc' = [pc EXCEPT ![e] = "done"]
                /\ UNCHANGED <<lastIndex, lastCall, verdict, obs>>
           ELSE /\ lastIndex' = v.lastIndex
                /\ lastCall' = Called(code, language, v)
                /\ verdict' = [verdict EXCEPT ![e] =
                        [isValid |-> v.isValid, errors |-> v.errors]]
                /\ obs' = [obs EXCEPT ![e].screened = TRUE, ![e].day = now]
                /\ IF CodeRejected(v)
                   THEN /\ response' = [response EXCEPT ![e] =
                                createErrorResponse(EXECUTION_STATUS.ERROR,
                                    <<"Code validation failed", v.errors>>)]
                        /\ pc' = [pc EXCEPT ![e] = "done"]
                   ELSE IF ~i.isValid
                   THEN /\ response' = [response EXCEPT ![e] =
                                createErrorResponse(EXECUTION_STATUS.ERROR,
                                    <<"Input validation failed", i.errors>>)]
                        /\ pc' = [pc EXCEPT ![e] = "done"]
                   ELSE IF user # "" /\ hasExceededDailyLimit(User[user])
                   THEN /\ response' = [response EXCEPT ![e] =
                                createErrorResponse(EXECUTION_STATUS.ERROR,
                                    <<"Daily execution limit exceeded", {}>>)]
                        /\ pc' = [pc EXCEPT ![e] = "done"]
                   ELSE /\ pc' = [pc EXCEPT ![e] = "mkdir"]
                        /\ UNCHANGED response
    /\ UNCHANGED <<tempDir, dir, container, cstate, exit, activeContainers,
                   timer, sub, caught, waited, stats, result, kpc, faults,
                   kills, User, now>>

\* ------------------------------------------------------ the workspace file

\* The class a unit of Java source declares: "public class Solution" and
\* "public class Main" declare public classes, "class Helper" a class that
\* is not public; any other unit declares none ("").
PublicClassOf(u) ==
    CASE u = "public class Solution" -> "Solution"
      [] u = "public class Main" -> "Main"
      [] OTHER -> ""

ClassOf(u) == IF u = "class Helper" THEN "Helper" ELSE PublicClassOf(u)

\* JavaExecutor.extractClassName: the first public class, else the first
\* class, else Main.  No caller of the execution pipeline uses it.
extractClassName(code) ==
    LET pub == { i \in 1..Len(code) : PublicClassOf(code[i]) # "" }
        any == { i \in 1..Len(code) : ClassOf(code[i]) # "" }
    IN  IF pub # {} THEN PublicClassOf(code[Min(pub)])
        ELSE IF any # {} THEN ClassOf(code[Min(any)])
        ELSE "Main"

\* Helpers.generateFileName(language, executionId): <<base, extension>>.
generateFileName(language) ==
    CASE language = "java" -> <<"Main", ".java">>
      [] language = "python" -> <<"main", ".py">>
      [] language = "javascript" -> <<"main", ".js">>
      [] language = "cpp" -> <<"main", ".cpp">>
      [] OTHER -> <<"main", ".txt">>

\* javac rejects a file that declares a public class of another name.
JavacRejects(code, fileName) ==
    \E i \in 1..Len(code) : PublicClassOf(code[i]) \notin {"", fileName[1]}

\* A program that reads its standard input.
ReadsStdin(code) == Has(code, "input()")

\* buildContainerOptions: OpenStdin (and AttachStdin, StdinOnce) is !!input.
OpenStdin(input) == input # ""

\* The options of container.attach in waitForContainerCompletion.
AttachOptions == [stream |-> TRUE, stdout |-> TRUE, stderr |-> TRUE, stdin |-> FALSE]

\* The request's input reaches the process's standard input: only through an
\* attached stdin stream (input.txt in the workspace is read by no launch
\* command).
StdinDelivered(input) == input # "" /\ AttachOptions.stdin

\* ------------------------------------------------- DockerService.executeCode

\* executeCode returns r to the orchestrator, which goes on to
\* createExecutionRecord and awaits the record's save.
DockerReturn(e, r) ==
    /\ result' = [result EXCEPT ![e] = r]
    /\ pc' = [pc EXCEPT ![e] = "save"]
    /\ caught' = [caught EXCEPT ![e] = "none"]
    /\ waited' = [waited EXCEPT ![e] = NoExit.code]
    /\ stats' = [stats EXCEPT ![e] = NoStats]

\* The start of cleanupContainer: the registry entry is deleted and
\* container.inspect() is awaited.
BeginCleanupMut(e) ==
    /\ activeContainers' = activeContainers
    /\ pc' = [pc EXCEPT ![e] = "inspect"]

BeginCleanup(e) ==
    /\ activeContainers' = activeContainers \ {e}
    /\ pc' = [pc EXCEPT ![e] = "inspect"]

\* How the run ended, for the properties: the promise of
\* waitForContainerCompletion resolved, or the catch block received an error.
Settle(e, how) == obs' = [obs EXCEPT ![e].settled = how]

\* The catch block of executeCode receives an error.
Catch(e, message) ==
    /\ Settle(e, message)
    /\ IF container[e]
       THEN /\ caught' = [caught EXCEPT ![e] = message]
            /\ BeginCleanup(e)
            /\ UNCHANGED <<result, waited, stats>>
       ELSE IF tempDir[e]
       THEN /\ caught' = [caught EXCEPT ![e] = message]
            /\ pc' = [pc EXCEPT ![e] = "rmdir"]
            /\ UNCHANGED <<result, waited, stats, activeContainers>>
       ELSE /\ DockerReturn(e, ErrorReturn(message))
            /\ UNCHANGED activeContainers

Fault == /\ faults < MaxFaults
         /\ faults' = faults + 1

\* Helpers.createTempDirectory
MkdirResolved(e) ==
    /\ pc[e] = "mkdir"
    /\ tempDir' = [tempDir EXCEPT ![e] = TRUE]
    /\ dir' = [dir EXCEPT ![e] = TRUE]
    /\ pc' = [pc EXCEPT ![e] = "writeCode"]
    /\ UNCHANGED <<req, User, now, lastIndex, lastCall, verdict, container, cstate, exit,
                   activeContainers, timer, sub, caught, waited, stats,
                   result, response, kpc, faults, kills, obs>>

MkdirRejected(e) ==
    /\ pc[e] = "mkdir"
    /\ Fault
    /\ Catch(e, "request failed")
    /\ UNCHANGED <<req, User, now, lastIndex, lastCall, verdict, tempDir, dir, container, cstate,
                   exit, timer, sub, response, kpc, kills>>

\* Helpers.writeCodeToFile, then writeInputToFile when the input is not
\* empty, else buildContainerOptions and docker.createContainer.
WriteCodeResolved(e) ==
    /\ pc[e] = "writeCode"
    /\ pc' = [pc EXCEPT ![e] = IF req[e].input # "" THEN "writeInput" ELSE "create"]
    /\ obs' = [obs EXCEPT ![e].fileName = generateFileName(req[e].language),
                          ![e].written = sanitizeCode(req[e].code)]
    /\ UNCHANGED <<req, User, now, lastIndex, lastCall, verdict, tempDir, dir, container, cstate,
                   exit, activeContainers, timer, sub, caught, waited, stats,
                   result, response, kpc, faults, kills>>

WriteInputResolved(e) ==
    /\ pc[e] = "writeInput"
    /\ pc' = [pc EXCEPT ![e] = "create"]
    /\ UNCHANGED <<req, User, now, lastIndex, lastCall, verdict, tempDir, dir, container, cstate,
                   exit, activeContainers, timer, sub, caught, waited, stats,
                   result, response, kpc, faults, kills, obs>>

WriteRejected(e) ==
    /\ pc[e] \in {"writeCode", "writeInput"}
    /\ Fault
    /\ Catch(e, "request failed")
    /\ UNCHANGED <<req, User, now, lastIndex, lastCall, verdict, tempDir, dir, container, cstate,
                   exit, timer, sub, response, kpc, kills>>

\* docker.createContainer resolved: the handle is kept and registered, and
\* container.start() is awaited.
CreateResolved(e) ==
    /\ pc[e] = "create"
    /\ container' = [container EXCEPT ![e] = TRUE]
    /\ cstate' = [cstate EXCEPT ![e] = "created"]
    /\ activeContainers' = activeContainers \cup {e}
    /\ pc' = [pc EXCEPT ![e] = "start"]
    /\ UNCHANGED <<req, User, now, lastIndex, lastCall, verdict, tempDir, dir, exit, timer, sub,
                   caught, waited, stats, result, response, kpc, faults,
                   kills, obs>>

CreateRejected(e) ==
    /\ pc[e] = "create"
    /\ Fault
    /\ Catch(e, "request failed")
    /\ UNCHANGED <<req, User, now, lastIndex, lastCall, verdict, tempDir, dir, container, cstate,
                   exit, timer, sub, response, kpc, kills>>

\* container.start() resolved: waitForContainerCompletion arms the deadline
\* timer and awaits container.attach(); executeCode awaits its promise.
StartResolved(e) ==
    /\ pc[e] = "start"
    /\ cstate[e] = "created"
    /\ cstate' = [cstate EXCEPT ![e] = "running"]
    /\ timer' = [timer EXCEPT ![e] = "armed"]
    /\ sub' = [sub EXCEPT ![e] = "attach"]
    /\ pc' = [pc EXCEPT ![e] = "await"]
    /\ obs' = [obs EXCEPT ![e].deadlineMs = containerConfigs[req[e].language].timeout]
    /\ UNCHANGED <<req, User, now, lastIndex, lastCall, verdict, tempDir, dir, container, exit,
                   activeContainers, caught, waited, stats, result, response,
                   kpc, faults, kills>>

StartRejected(e) ==
    /\ pc[e] = "start"
    /\ Fault
    /\ Catch(e, "request failed")
    /\ UNCHANGED <<req, User, now, lastIndex, lastCall, verdict, tempDir, dir, container, cstate,
                   exit, timer, sub, response, kpc, kills>>


\* The process in the container ends by itself: exit 0, a failing run, a
\* failing compile stage of a compile-then-run command, or the kernel's
\* out-of-memory kill at the memory cap.
Outcomes(language) ==
    {[code |-> 0, cause |-> "exit0"], [code |-> 1, cause |-> "exit1"],
     [code |-> 137, cause |-> "oom"]}
    \cup (IF language \in SUPPORTED_LANGUAGES /\ containerConfigs[language].compiles
          THEN {[code |-> 1, cause |-> "compile"]} ELSE {})

AllOutcomes == UNION { Outcomes(l) : l \in SUPPORTED_LANGUAGES }

\* How the process of execution e can end by itself, given the file that was
\* written and the launch command of containerConfigs: for Java, javac
\* Main.java fails on a public class of another name; a program that reads
\* standard input it is not given fails on end of input when the container
\* has no stdin, and blocks (it does not end by itself) when the container's
\* stdin is open and nothing is written to it.
ProcessOutcomes(e) ==
    IF req[e].language = "java" /\ JavacRejects(obs[e].written, obs[e].fileName)
    THEN {[code |-> 1, cause |-> "compile"]}
    ELSE IF ReadsStdin(obs[e].written) /\ ~StdinDelivered(req[e].input)
    THEN IF OpenStdin(req[e].input) THEN {}
         ELSE {[code |-> 1, cause |-> "exit1"]}
    ELSE Outcomes(req[e].language)

ContainerExit(e, o) ==
    /\ cstate[e] = "running"
    /\ o \in ProcessOutcomes(e)
    /\ cstate' = [cstate EXCEPT ![e] = "exited"]
    /\ exit' = [exit EXCEPT ![e] = o]
    /\ UNCHANGED <<pc, req, User, now, lastIndex, lastCall, verdict, tempDir, dir, container,
                   activeContainers, timer, sub, caught, waited, stats,
                   result, response, kpc, faults, kills, obs>>

\* A kill request reaches the runtime: a running container is killed
\* (SIGKILL, exit code 137).
Killed(e, by) ==
    /\ cstate' = [cstate EXCEPT ![e] = "exited"]
    /\ exit' = [exit EXCEPT ![e] = [code |-> 137, cause |-> by]]

\* The promise of waitForContainerCompletion is settled while executeCode
\* awaits it; a second settlement does nothing.
Resolve(e, exitCode) ==
    /\ Settle(e, "resolved")
    /\ waited' = [waited EXCEPT ![e] = exitCode]
    /\ pc' = [pc EXCEPT ![e] = "stats"]
    /\ UNCHANGED <<caught, stats, result, activeContainers>>

\* The deadline timer fires: the callback awaits container.kill().
TimerFire(e) ==
    /\ timer[e] = "armed"
    /\ timer' = [timer EXCEPT ![e] = "killing"]
    /\ obs' = [obs EXCEPT ![e].deadline = cstate[e]]
    /\ UNCHANGED <<pc, req, User, now, lastIndex, lastCall, verdict, tempDir, dir, container,
                   cstate, exit, activeContainers, sub, caught, waited, stats,
                   result, response, kpc, faults, kills>>

\* The timer's kill request is served by the runtime.
TimerKillLands(e) ==
    /\ timer[e] = "killing"
    /\ timer' = [timer EXCEPT ![e] = "killed"]
    /\ \/ cstate[e] = "running" /\ Killed(e, "deadline") /\ UNCHANGED faults
       \/ cstate[e] # "running" /\ UNCHANGED <<cstate, exit, faults>>
       \/ cstate[e] = "running" /\ Fault /\ UNCHANGED <<cstate, exit>>
    /\ UNCHANGED <<pc, req, User, now, lastIndex, lastCall, verdict, tempDir, dir, container,
                   activeContainers, sub, caught, waited, stats, result,
                   response, kpc, kills, obs>>

\* The kill's answer arrives (an error is logged): reject('Execution timeout').
TimerKillReturns(e) ==
    /\ timer[e] = "killed"
    /\ timer' = [timer EXCEPT ![e] = "unset"]
    /\ IF pc[e] = "await"
       THEN /\ Catch(e, "Execution timeout")
            /\ sub' = [sub EXCEPT ![e] = "none"]
       ELSE UNCHANGED <<pc, caught, waited, stats, result, activeContainers, sub,
                        obs>>
    /\ UNCHANGED <<req, User, now, lastIndex, lastCall, verdict, tempDir, dir, container, cstate,
                   exit, response, kpc, faults, kills>>

\* clearTimeout(timeoutId): a timer that has not fired is cancelled.
clearTimeout(e) ==
    timer' = [timer EXCEPT ![e] = IF timer[e] = "armed" THEN "unset" ELSE timer[e]]

\* container.attach() resolved: the streams are demultiplexed and
\* container.wait() is awaited.
AttachResolved(e) ==
    /\ sub[e] = "attach"
    /\ cstate[e] # "removed"
    /\ sub' = [sub EXCEPT ![e] = "wait"]
    /\ UNCHANGED <<pc, req, User, now, lastIndex, lastCall, verdict, tempDir, dir, container,
                   cstate, exit, activeContainers, timer, caught, waited,
                   stats, result, response, kpc, faults, kills, obs>>

\* The process writes a chunk to its stdout.  The attached stream carries
\* what is written from the moment of the attach request on (no logs option):
\* a chunk written before container.attach() resolved is on no stream.
ProcessWrites(e, unit) ==
    /\ cstate[e] = "running"
    /\ Len(obs[e].wrote) < MaxChunks
    /\ LET chunk == [n |-> Len(obs[e].wrote) + 1, unit |-> unit, len |-> ChunkLength]
       IN obs' = [obs EXCEPT ![e].wrote = Append(@, chunk),
                             ![e].stream = IF sub[e] = "wait"
                                           THEN Append(@, chunk) ELSE @]
    /\ UNCHANGED <<pc, req, User, now, lastIndex, lastCall, verdict, tempDir, dir, container,
                   cstate, exit, activeContainers, timer, sub, caught, waited,
                   stats, result, response, kpc, faults, kills>>

\* The stdout callback given to demuxStream receives the next chunk of the
\* stream: output += chunk.toString().  Once the promise is settled the
\* string that was passed to resolve no longer changes.
demuxStream(e) ==
    /\ sub[e] = "wait"
    /\ obs[e].stream # <<>>
    /\ obs' = [obs EXCEPT ![e].output = Append(@, Head(obs[e].stream)),
                          ![e].stream = Tail(@)]
    /\ UNCHANGED <<pc, req, User, now, lastIndex, lastCall, verdict, tempDir, dir, container,
                   cstate, exit, activeContainers, timer, sub, caught, waited,
                   stats, result, response, kpc, faults, kills>>

\* container.attach() or container.wait() rejected: clearTimeout and
\* reject(err).
WaitRejected(e) ==
    /\ \/ sub[e] \in {"attach", "wait"} /\ Fault
       \/ sub[e] = "attach" /\ cstate[e] = "removed" /\ UNCHANGED faults
    /\ clearTimeout(e)
    /\ sub' = [sub EXCEPT ![e] = "none"]
    /\ Catch(e, "request failed")
    /\ UNCHANGED <<req, User, now, lastIndex, lastCall, verdict, tempDir, dir, container, cstate,
                   exit, response, kpc, kills>>

\* container.wait() resolved with the exit code: clearTimeout and resolve.
WaitResolved(e) ==
    /\ sub[e] = "wait"
    /\ cstate[e] \in {"exited", "removed"}
    /\ clearTimeout(e)
    /\ sub' = [sub EXCEPT ![e] = "none"]
    /\ Resolve(e, exit[e].code)
    /\ UNCHANGED <<req, User, now, lastIndex, lastCall, verdict, tempDir, dir, container, cstate,
                   exit, response, kpc, faults, kills>>

\* getContainerStats: the memory the runtime reports for the container; a
\* failed query is logged and gives zeros.  Then cleanupContainer starts.
StatsResolved(e) ==
    /\ pc[e] = "stats"
    /\ cstate[e] # "removed"
    /\ stats' = [stats EXCEPT ![e] =
            [memory |-> IF exit[e].cause = "oom" THEN "cap" ELSE "below"]]
    /\ BeginCleanup(e)
    /\ UNCHANGED <<req, User, now, lastIndex, lastCall, verdict, tempDir, dir, container, cstate,
                   exit, timer, sub, caught, waited, result, response, kpc,
                   faults, kills, obs>>

StatsRejected(e) ==
    /\ pc[e] = "stats"
    /\ \/ cstate[e] = "removed" /\ UNCHANGED faults
       \/ cstate[e] # "removed" /\ Fault
    /\ stats' = [stats EXCEPT ![e] = [memory |-> "zero"]]
    /\ BeginCleanup(e)
    /\ UNCHANGED <<req, User, now, lastIndex, lastCall, verdict, tempDir, dir, container, cstate,
                   exit, timer, sub, caught, waited, result, response, kpc,
                   kills, obs>>


\* ------------------------------------------ cleanupContainer, by executeCode

\* cleanupContainer returned (its catch swallows every error): executeCode
\* awaits Helpers.cleanupTempDirectory(tempDir).
AfterCleanupMut(e) ==
    DockerReturn(e, IF caught[e] = "none" THEN SuccessReturn(e)
                    ELSE ErrorReturn(caught[e]))

AfterCleanup(e) ==
    /\ pc' = [pc EXCEPT ![e] = "rmdir"]
    /\ UNCHANGED <<result, caught, waited, stats>>

\* A request of cleanupContainer hit a fault of the runtime while the
\* container exists.
TeardownFailed(e) == obs' = [obs EXCEPT ![e].teardownFailed = TRUE]

\* container.inspect() resolved: a running container is stopped first.
InspectResolved(e) ==
    /\ pc[e] = "inspect"
    /\ cstate[e] # "removed"
    /\ pc' = [pc EXCEPT ![e] = IF cstate[e] = "running" THEN "stop" ELSE "remove"]
    /\ UNCHANGED <<req, User, now, lastIndex, lastCall, verdict, tempDir, dir, container, cstate,
                   exit, activeContainers, timer, sub, caught, waited, stats,
                   result, response, kpc, faults, kills, obs>>

InspectRejected(e) ==
    /\ pc[e] = "inspect"
    /\ \/ cstate[e] = "removed" /\ UNCHANGED <<faults, obs>>
       \/ cstate[e] # "removed" /\ Fault /\ TeardownFailed(e)
    /\ AfterCleanup(e)
    /\ UNCHANGED <<req, User, now, lastIndex, lastCall, verdict, tempDir, dir, container, cstate,
                   exit, activeContainers, timer, sub, response, kpc, kills>>

\* container.stop({t: 5}) resolved: the container is stopped, and
\* container.remove({force: true}) is awaited.
StopResolved(e) ==
    /\ pc[e] = "stop"
    /\ cstate[e] = "running"
    /\ Killed(e, "stop")
    /\ pc' = [pc EXCEPT ![e] = "remove"]
    /\ UNCHANGED <<req, User, now, lastIndex, lastCall, verdict, tempDir, dir, container,
                   activeContainers, timer, sub, caught, waited, stats,
                   result, response, kpc, faults, kills, obs>>

\* container.stop() rejected: a fault of the runtime, or the container
\* stopped (or was removed) after inspect answered Running, which a healthy
\* runtime answers with an error ("container already stopped").  The catch
\* of cleanupContainer logs it, and the remove is skipped.
StopRejected(e) ==
    /\ pc[e] = "stop"
    /\ \/ cstate[e] = "running" /\ Fault /\ TeardownFailed(e)
       \/ cstate[e] \in {"exited", "removed"} /\ UNCHANGED <<faults, obs>>
    /\ AfterCleanup(e)
    /\ UNCHANGED <<req, User, now, lastIndex, lastCall, verdict, tempDir, dir, container, cstate,
                   exit, activeContainers, timer, sub, response, kpc, kills>>

\* container.remove({force: true}) resolved: the container is gone.
RemoveResolved(e) ==
    /\ pc[e] = "remove"
    /\ cstate[e] # "removed"
    /\ cstate' = [cstate EXCEPT ![e] = "removed"]
    /\ obs' = [obs EXCEPT ![e].reaper = "executeCode"]
    /\ AfterCleanup(e)
    /\ UNCHANGED <<req, User, now, lastIndex, lastCall, verdict, tempDir, dir, container, exit,
                   activeContainers, timer, sub, response, kpc, faults, kills>>

RemoveRejected(e) ==
    /\ pc[e] = "remove"
    /\ \/ cstate[e] = "removed" /\ UNCHANGED <<faults, obs>>
       \/ cstate[e] # "removed" /\ Fault /\ TeardownFailed(e)
    /\ AfterCleanup(e)
    /\ UNCHANGED <<req, User, now, lastIndex, lastCall, verdict, tempDir, dir, container, cstate,
                   exit, activeContainers, timer, sub, response, kpc, kills>>

\* Helpers.cleanupTempDirectory: fs.rmdir resolved, or its error was logged.
\* executeCode returns its result.
RmdirResolved(e) ==
    /\ pc[e] = "rmdir"
    /\ dir' = [dir EXCEPT ![e] = FALSE]
    /\ DockerReturn(e, IF caught[e] = "none" THEN SuccessReturn(e)
                       ELSE ErrorReturn(caught[e]))
    /\ UNCHANGED <<req, User, now, lastIndex, lastCall, verdict, tempDir, container, cstate, exit,
                   activeContainers, timer, sub, response, kpc, faults, kills,
                   obs>>

RmdirRejectedMut(e) ==
    /\ pc[e] = "rmdir"
    /\ Fault
    /\ obs' = [obs EXCEPT ![e].rmdirFailed = TRUE]
    /\ DockerReturn(e, ErrorReturn("request failed"))
    /\ UNCHANGED <<req, User, now, lastIndex, lastCall, verdict, tempDir, dir, container, cstate,
                   exit, activeContainers, timer, sub, response, kpc, kills>>

RmdirRejected(e) ==
    /\ pc[e] = "rmdir"
    /\ Fault
    /\ obs' = [obs EXCEPT ![e].rmdirFailed = TRUE]
    /\ DockerReturn(e, IF caught[e] = "none" THEN SuccessReturn(e)
                       ELSE ErrorReturn(caught[e]))
    /\ UNCHANGED <<req, User, now, lastIndex, lastCall, verdict, tempDir, dir, container, cstate,
                   exit, activeContainers, timer, sub, response, kpc, kills>>

\* ------------------------------------------- the orchestrator, after the run

\* createExecutionRecord: the save resolved; updateStatistics awaits the
\* session's counters.
SaveResolved(e) ==
    /\ pc[e] = "save"
    /\ pc' = [pc EXCEPT ![e] = "statistics"]
    /\ UNCHANGED <<req, User, now, lastIndex, lastCall, verdict, tempDir, dir, container, cstate,
                   exit, activeContainers, timer, sub, caught, waited, stats,
                   result, response, kpc, faults, kills, obs>>

\* The save rejected: createExecutionRecord rethrows, and executeCode's catch
\* answers with createErrorResponse.
SaveRejected(e) ==
    /\ pc[e] = "save"
    /\ Fault
    /\ response' = [response EXCEPT ![e] =
            createErrorResponse(EXECUTION_STATUS.ERROR, <<"request failed", {}>>)]
    /\ pc' = [pc EXCEPT ![e] = "done"]
    /\ UNCHANGED <<req, User, now, lastIndex, lastCall, verdict, tempDir, dir, container, cstate,
                   exit, activeContainers, timer, sub, caught, waited, stats,
                   result, kpc, kills, obs>>

\* updateStatistics returned (its catch swallows every error):
\* generateSecurityReport screens the sanitized code again, and the
\* response is built from the run's result.
Respond(e) ==
    LET code == sanitizeCode(req[e].code)
        v == validateCode(code, req[e].language, lastIndex)
    IN  /\ lastIndex' = v.lastIndex
        /\ lastCall' = Called(code, req[e].language, v)
        /\ response' = [response EXCEPT ![e] =
                [success |-> TRUE, status |-> result[e].status,
                 exitCode |-> result[e].exitCode,
                 error |-> <<result[e].error, v.errors>>]]
        /\ pc' = [pc EXCEPT ![e] = "done"]

\* updateStatistics: userInfo.updateExecutionCount() changes the loaded
\* document and saves it; a failed save is logged.
StatisticsResolved(e) ==
    /\ pc[e] = "statistics"
    /\ Respond(e)
    /\ LET user == updateExecutionCount(req[e].userInfo, now)
       IN IF req[e].user = "" THEN UNCHANGED <<req, User>>
          ELSE /\ req' = [req EXCEPT ![e].userInfo = user]
               /\ User' = [User EXCEPT ![req[e].user] = user]
    /\ UNCHANGED <<now, verdict, tempDir, dir, container, cstate, exit,
                   activeContainers, timer, sub, caught, waited, stats,
                   result, kpc, faults, kills, obs>>

StatisticsRejected(e) ==
    /\ pc[e] = "statistics"
    /\ Fault
    /\ Respond(e)
    /\ req' = [req EXCEPT ![e].userInfo =
                   IF req[e].user = "" THEN @ ELSE updateExecutionCount(@, now)]
    /\ UNCHANGED <<User, now, verdict, tempDir, dir, container, cstate, exit,
                   activeContainers, timer, sub, caught, waited, stats,
                   result, kpc, kills, obs>>

\* ----------------------------------------------- DockerService.killContainer

\* The execution's record is in the store: createExecutionRecord saved it.
RecordExists(e) ==
    \/ pc[e] = "statistics"
    \/ pc[e] = "done" /\ response[e].success

\* DockerService.killContainer(executionId) up to its await: the handle is
\* looked up in the registry; without one it returns false, with one it
\* awaits container.kill().
KillContainer(e) ==
    kpc' = [kpc EXCEPT ![e] = IF e \in activeContainers THEN "kill" ELSE "false"]

\* CodeExecutionService.killExecution(executionId, userId) for an execution
\* that was started: with a userId it awaits CodeExecution.findOne, without
\* one it calls killContainer at once.
KillExecution(e, userId) ==
    /\ kills < MaxKills
    /\ kpc[e] = "idle"
    /\ pc[e] # "idle"
    /\ kills' = kills + 1
    /\ obs' = [obs EXCEPT ![e].killer = userId, ![e].killAt = cstate[e]]
    /\ IF userId = "" THEN KillContainer(e)
       ELSE kpc' = [kpc EXCEPT ![e] = "findOne"]
    /\ UNCHANGED <<pc, req, User, now, lastIndex, lastCall, verdict, tempDir, dir, container,
                   cstate, exit, activeContainers, timer, sub, caught, waited,
                   stats, result, response, faults>>

\* findOne({executionId, userId}) resolved: without a record of that user
\* killExecution throws 'Execution not found or unauthorized'.
FindOneResolved(e) ==
    /\ kpc[e] = "findOne"
    /\ IF RecordExists(e) /\ req[e].user = obs[e].killer
       THEN KillContainer(e)
       ELSE kpc' = [kpc EXCEPT ![e] = "thrown"]
    /\ UNCHANGED <<pc, req, User, now, lastIndex, lastCall, verdict, tempDir, dir, container,
                   cstate, exit, activeContainers, timer, sub, caught, waited,
                   stats, result, response, faults, kills, obs>>

FindOneRejected(e) ==
    /\ kpc[e] = "findOne"
    /\ Fault
    /\ kpc' = [kpc EXCEPT ![e] = "thrown"]
    /\ UNCHANGED <<pc, req, User, now, lastIndex, lastCall, verdict, tempDir, dir, container,
                   cstate, exit, activeContainers, timer, sub, caught, waited,
                   stats, result, response, kills, obs>>

\* The kill request is served by the runtime: a running container is
\* killed, any other is refused.
KillLands(e) ==
    /\ kpc[e] = "kill"
    /\ \/ /\ cstate[e] = "running"
          /\ Killed(e, "killContainer")
          /\ kpc' = [kpc EXCEPT ![e] = "killed"]
          /\ UNCHANGED faults
       \/ /\ cstate[e] # "running"
          /\ kpc' = [kpc EXCEPT ![e] = "refused"]
          /\ UNCHANGED <<cstate, exit, faults>>
       \/ /\ cstate[e] = "running"
          /\ Fault
          /\ kpc' = [kpc EXCEPT ![e] = "refused"]
          /\ UNCHANGED <<cstate, exit>>
    /\ UNCHANGED <<pc, req, User, now, lastIndex, lastCall, verdict, tempDir, dir, container,
                   activeContainers, timer, sub, caught, waited, stats,
                   result, response, kills, obs>>

\* The kill's answer arrives: cleanupContainer starts, or the error is
\* logged and killContainer returns false.
KillReturnsMut(e) ==
    /\ \/ /\ kpc[e] = "killed"
          /\ activeContainers' = {}
          /\ kpc' = [kpc EXCEPT ![e] = "inspect"]
       \/ /\ kpc[e] = "refused"
          /\ kpc' = [kpc EXCEPT ![e] = "false"]
          /\ UNCHANGED activeContainers
    /\ UNCHANGED <<pc, req, User, now, lastIndex, lastCall, verdict, tempDir, dir, container,
                   cstate, exit, timer, sub, caught, waited, stats, result,
                   response, faults, kills, obs>>

KillReturns(e) ==
    /\ \/ /\ kpc[e] = "killed"
          /\ activeContainers' = activeContainers \ {e}
          /\ kpc' = [kpc EXCEPT ![e] = "inspect"]
       \/ /\ kpc[e] = "refused"
          /\ kpc' = [kpc EXCEPT ![e] = "false"]
          /\ UNCHANGED activeContainers
    /\ UNCHANGED <<pc, req, User, now, lastIndex, lastCall, verdict, tempDir, dir, container,
                   cstate, exit, timer, sub, caught, waited, stats, result,
                   response, faults, kills, obs>>

\* cleanupContainer called by killContainer, which then returns true.
KillInspectResolved(e) ==
    /\ kpc[e] = "inspect"
    /\ cstate[e] # "removed"
    /\ kpc' = [kpc EXCEPT ![e] = IF cstate[e] = "running" THEN "stop" ELSE "remove"]
    /\ UNCHANGED <<pc, req, User, now, lastIndex, lastCall, verdict, tempDir, dir, container,
                   cstate, exit, activeContainers, timer, sub, caught, waited,
                   stats, result, response, faults, kills, obs>>

KillRemoveResolved(e) ==
    /\ kpc[e] = "remove"
    /\ cstate[e] # "removed"
    /\ cstate' = [cstate EXCEPT ![e] = "removed"]
    /\ obs' = [obs EXCEPT ![e].reaper = "killContainer"]
    /\ kpc' = [kpc EXCEPT ![e] = "true"]
    /\ UNCHANGED <<pc, req, User, now, lastIndex, lastCall, verdict, tempDir, dir, container, exit,
                   activeContainers, timer, sub, caught, waited, stats,
                   result, response, faults, kills>>

\* A request of killContainer's cleanupContainer rejected (the container is
\* gone already, or a fault): cleanupContainer logs it and returns, and
\* killContainer returns true.
KillCleanupRejectedMut(e) ==
    /\ kpc[e] \in {"inspect", "remove"}
    /\ \/ cstate[e] = "removed" /\ UNCHANGED faults
       \/ cstate[e] # "removed" /\ Fault
    /\ kpc' = [kpc EXCEPT ![e] = "false"]
    /\ UNCHANGED <<pc, req, User, now, lastIndex, lastCall, verdict, tempDir, dir, container,
                   cstate, exit, activeContainers, timer, sub, caught, waited,
                   stats, result, response, kills, obs>>

KillCleanupRejected(e) ==
    /\ kpc[e] \in {"inspect", "remove"}
    /\ \/ cstate[e] = "removed" /\ UNCHANGED faults
       \/ cstate[e] # "removed" /\ Fault
    /\ kpc' = [kpc EXCEPT ![e] = "true"]
    /\ UNCHANGED <<pc, req, User, now, lastIndex, lastCall, verdict, tempDir, dir, container,
                   cstate, exit, activeContainers, timer, sub, caught, waited,
                   stats, result, response, kills, obs>>

\* ------------------------------------------------------------ specification

Next ==
    \/ \E e \in Execs, l \in Languages, c \in Sources, i \in Inputs, u \in Users :
           ExecuteCode(e, l, c, i, u, NoTimeout)
    \/ \E e \in Execs, o \in AllOutcomes : ContainerExit(e, o)
    \/ \E e \in Execs : MkdirResolved(e)
    \/ \E e \in Execs : MkdirRejected(e)
    \/ \E e \in Execs : WriteCodeResolved(e)
    \/ \E e \in Execs : WriteInputResolved(e)
    \/ \E e \in Execs : WriteRejected(e)
    \/ \E e \in Execs : CreateResolved(e)
    \/ \E e \in Execs : CreateRejected(e)
    \/ \E e \in Execs : StartResolved(e)
    \/ \E e \in Execs : StartRejected(e)
    \/ \E e \in Execs : TimerFire(e)
    \/ \E e \in Execs : TimerKillLands(e)
    \/ \E e \in Execs : TimerKillReturns(e)
    \/ \E e \in Execs : AttachResolved(e)
    \/ \E e \in Execs : WaitResolved(e)
    \/ \E e \in Execs : WaitRejected(e)
    \/ \E e \in Execs : StatsResolved(e)
    \/ \E e \in Execs : StatsRejected(e)
    \/ \E e \in Execs : InspectResolved(e)
    \/ \E e \in Execs : InspectRejected(e)
    \/ \E e \in Execs : StopResolved(e)
    \/ \E e \in Execs : StopRejected(e)
    \/ \E e \in Execs : RemoveResolved(e)
    \/ \E e \in Execs : RemoveRejected(e)
    \/ \E e \in Execs : RmdirResolved(e)
    \/ \E e \in Execs : RmdirRejected(e)
    \/ \E e \in Execs : SaveResolved(e)
    \/ \E e \in Execs : SaveRejected(e)
    \/ \E e \in Execs : StatisticsResolved(e)
    \/ \E e \in Execs : StatisticsRejected(e)
    \/ \E e \in Execs, u \in Users : KillExecution(e, u)
    \/ \E e \in Execs : FindOneResolved(e)
    \/ \E e \in Execs : FindOneRejected(e)
    \/ \E e \in Execs : KillLands(e)
    \/ \E e \in Execs : KillReturns(e)
    \/ \E e \in Execs : KillInspectResolved(e)
    \/ \E e \in Execs : KillRemoveResolved(e)
    \/ \E e \in Execs : KillCleanupRejected(e)

Spec == Init /\ [][Next]_vars



\* ------------------------------------------- the screener, called repeatedly

ScreenUnits ==
    {"x", "import os", "system(", "exec(", "eval(",
     "Runtime.getRuntime().exec", "ProcessBuilder", "../", "/etc/passwd",
     "/proc/"}

ScreenSources == UNION { [1..k -> ScreenUnits] : k \in 0..MaxLen }

\* One call of SecurityService.validateCode by any of its callers.
ValidateCall(language, code) ==
    LET v == validateCode(code, language, lastIndex)
    IN  /\ lastIndex' = v.lastIndex
        /\ lastCall' = Called(code, language, v)
        /\ UNCHANGED <<pc, req, User, now, verdict, tempDir, dir, container, cstate, exit,
                       activeContainers, timer, sub, caught, waited, stats,
                       result, response, kpc, faults, kills, obs>>

InitScreen == InitFor({})

NextScreen ==
    \E l \in SUPPORTED_LANGUAGES, c \in ScreenSources : ValidateCall(l, c)

SpecScreen == InitScreen /\ [][NextScreen]_vars

\* ------------------------------------------------- many concurrent calls

\* More calls than MAX_CONCURRENT_EXECUTIONS, each an accepted request, each
\* followed up to its created container; a call is admitted while fewer than
\* CapWindow earlier calls are still preparing theirs.
Preparing == { f \in Execs : pc[f] \in {"mkdir", "writeCode", "create"} }

CapArrive(e) ==
    /\ Cardinality(Preparing) < CapWindow
    /\ ExecuteCode(e, "python", <<"x">>, "", "", NoTimeout)

InitCap == InitFor(1..(MAX_CONCURRENT_EXECUTIONS + 1))

NextCap ==
    \/ \E e \in Execs : CapArrive(e)
    \/ \E e \in Execs : MkdirResolved(e)
    \/ \E e \in Execs : WriteCodeResolved(e)
    \/ \E e \in Execs : CreateResolved(e)

SpecCap == InitCap /\ [][NextCap]_vars

\* ------------------------------------------------------- the HTTP route

\* ValidationMiddleware.sanitizeInput on the body's code: NUL is removed and
\* the string is trimmed.
sanitizeString(code) == Trim(SelectSeq(code, LAMBDA u : u # "\\0"))

\* ValidationMiddleware.validateCodeExecution: the rules of language, code
\* and timeout (a timeout is optional).
validateCodeExecution(language, code, timeout) ==
    /\ language \in SUPPORTED_LANGUAGES
    /\ Len(code) >= 1 /\ Len(code) <= MAX_CODE_LENGTH
    /\ ~Has(code, "\\0")
    /\ timeout = NoTimeout \/ (timeout >= 1000 /\ timeout <= 60000)

\* POST /execute: the middlewares (checkExecutionLimits answers 429 to a
\* user over the daily limit), then CodeController.executeCode, which passes
\* language, code and input of the body to the service.
PostExecute(e, language, code, input, user, timeout) ==
    /\ user # "" => ~hasExceededDailyLimit(User[user])
    /\ validateCodeExecution(language, sanitizeString(code), timeout)
    /\ ExecuteCode(e, language, sanitizeString(code), input, user, timeout)

\* ------------------------------------------------- one program, no faults

\* One anonymous request posted with a program of interest: a plain one, one
\* that reads standard input, Java sources with class declarations; and a
\* timeout of the body.  The call is followed to its response, with the
\* deadline.
ProgramSources ==
    { <<"x">>, <<"input()">>, <<"public class Solution">>,
      <<"class Helper", "public class Solution">>, <<"public class Main">>,
      <<"class Helper">> }

Timeouts == { NoTimeout, 500, 1000, 60000 }

ProgramArrive(e) ==
    \E l \in SUPPORTED_LANGUAGES, c \in ProgramSources, i \in {"", "text"},
       t \in Timeouts : PostExecute(e, l, c, i, "", t)

InitPrograms == InitFor({1})

NextPrograms ==
    \/ \E e \in Execs : ProgramArrive(e)
    \/ \E e \in Execs, o \in AllOutcomes : ContainerExit(e, o)
    \/ \E e \in Execs : MkdirResolved(e)
    \/ \E e \in Execs : WriteCodeResolved(e)
    \/ \E e \in Execs : WriteInputResolved(e)
    \/ \E e \in Execs : CreateResolved(e)
    \/ \E e \in Execs : StartResolved(e)
    \/ \E e \in Execs : TimerFire(e)
    \/ \E e \in Execs : TimerKillLands(e)
    \/ \E e \in Execs : TimerKillReturns(e)
    \/ \E e \in Execs : AttachResolved(e)
    \/ \E e \in Execs : WaitResolved(e)
    \/ \E e \in Execs : StatsResolved(e)
    \/ \E e \in Execs : InspectResolved(e)
    \/ \E e \in Execs : StopResolved(e)
    \/ \E e \in Execs : StopRejected(e)
    \/ \E e \in Execs : RemoveResolved(e)
    \/ \E e \in Execs : RmdirResolved(e)
    \/ \E e \in Execs : SaveResolved(e)
    \/ \E e \in Execs : StatisticsResolved(e)

SpecPrograms == InitPrograms /\ [][NextPrograms]_vars

\* --------------------------------------------- what reaches the workspace

\* Posted requests, one after another or together, followed until the
\* source file is written.
WrittenUnits == {"x", "../", "eval(", "\\0", "\\r"}

WrittenSources == UNION { [1..k -> WrittenUnits] : k \in 0..MaxLen }

WrittenArrive(e) ==
    \E l \in SUPPORTED_LANGUAGES, c \in WrittenSources :
        PostExecute(e, l, c, "", "", NoTimeout)

InitWritten == InitFor(1..WrittenExecs)

NextWritten ==
    \/ \E e \in Execs : WrittenArrive(e)
    \/ \E e \in Execs : MkdirResolved(e)
    \/ \E e \in Execs : WriteCodeResolved(e)

SpecWritten == InitWritten /\ [][NextWritten]_vars

\* --------------------------------------------------- two concurrent calls

\* Helpers.generateExecutionId: exec_<timestamp>_<8 random bytes>; the random
\* part makes the ids of different calls different.
generateExecutionId(e) == <<"exec", e>>

\* Helpers.createTempDirectory: <tmpdir>/code_exec_<executionId>.
createTempDirectory(e) == <<"tmpdir", "code_exec", generateExecutionId(e)>>

\* Anonymous calls with an accepted program that exits with 0 when it is
\* left to run.  DockerService.executeCode is followed to its return, with
\* the deadline, failing create/start requests and killExecution requests.
PairArrive(e) == ExecuteCode(e, "python", <<"x">>, "", "", NoTimeout)

PairExit(e) == ContainerExit(e, [code |-> 0, cause |-> "exit0"])

InitPair == InitFor(1..PairExecs)

NextPair ==
    \/ \E e \in Execs : PairArrive(e)
    \/ \E e \in Execs : PairExit(e)
    \/ \E e \in Execs : MkdirResolved(e)
    \/ \E e \in Execs : WriteCodeResolved(e)
    \/ \E e \in Execs : CreateResolved(e)
    \/ \E e \in Execs : CreateRejected(e)
    \/ \E e \in Execs : StartResolved(e)
    \/ \E e \in Execs : StartRejected(e)
    \/ \E e \in Execs : TimerFire(e)
    \/ \E e \in Execs : TimerKillLands(e)
    \/ \E e \in Execs : TimerKillReturns(e)
    \/ \E e \in Execs : AttachResolved(e)
    \/ \E e \in Execs : WaitResolved(e)
    \/ \E e \in Execs : WaitRejected(e)
    \/ \E e \in Execs : StatsResolved(e)
    \/ \E e \in Execs : StatsRejected(e)
    \/ \E e \in Execs : InspectResolved(e)
    \/ \E e \in Execs : InspectRejected(e)
    \/ \E e \in Execs : StopResolved(e)
    \/ \E e \in Execs : StopRejected(e)
    \/ \E e \in Execs : RemoveResolved(e)
    \/ \E e \in Execs : RmdirResolved(e)
    \/ \E e \in Execs : KillExecution(e, "")
    \/ \E e \in Execs : KillLands(e)
    \/ \E e \in Execs : KillReturns(e)
    \/ \E e \in Execs : KillInspectResolved(e)
    \/ \E e \in Execs : KillRemoveResolved(e)

SpecPair == InitPair /\ [][NextPair]_vars


\* ------------------------------------------------ one call and its output

\* One anonymous call (PairArrive) with a program that writes up to MaxChunks
\* chunks to its stdout and exits with 0, followed from the request to the
\* return of DockerService.executeCode, with the deadline timer.
InitOutput == InitFor({1})

NextOutput ==
    \/ \E e \in Execs : PairArrive(e)
    \/ \E e \in Execs : MkdirResolved(e)
    \/ \E e \in Execs : WriteCodeResolved(e)
    \/ \E e \in Execs : CreateResolved(e)
    \/ \E e \in Execs : StartResolved(e)
    \/ \E e \in Execs, unit \in ChunkUnits : ProcessWrites(e, unit)
    \/ \E e \in Execs : PairExit(e)
    \/ \E e \in Execs : AttachResolved(e)
    \/ \E e \in Execs : demuxStream(e)
    \/ \E e \in Execs : WaitResolved(e)
    \/ \E e \in Execs : TimerFire(e)
    \/ \E e \in Execs : TimerKillLands(e)
    \/ \E e \in Execs : TimerKillReturns(e)
    \/ \E e \in Execs : StatsResolved(e)
    \/ \E e \in Execs : InspectResolved(e)
    \/ \E e \in Execs : StopResolved(e)
    \/ \E e \in Execs : StopRejected(e)
    \/ \E e \in Execs : RemoveResolved(e)
    \/ \E e \in Execs : RmdirResolved(e)

SpecOutput == InitOutput /\ [][NextOutput]_vars


\* ------------------------------------------------------- the daily limit

\* Calls of user u1, who has run AlreadyRun executions today, each followed
\* from the request to the update of the user's counters, on a healthy
\* runtime, while the calendar day changes up to MaxDays times.
DailyArrive(e) == ExecuteCode(e, "python", <<"x">>, "", "u1", NoTimeout)

Midnight ==
    /\ now < MaxDays
    /\ now' = now + 1
    /\ UNCHANGED <<pc, req, User, lastIndex, lastCall, verdict, tempDir, dir,
                   container, cstate, exit, activeContainers, timer, sub,
                   caught, waited, stats, result, response, kpc, faults,
                   kills, obs>>

NextDaily ==
    \/ \E e \in Execs : DailyArrive(e)
    \/ Midnight
    \/ \E e \in Execs : MkdirResolved(e)
    \/ \E e \in Execs : WriteCodeResolved(e)
    \/ \E e \in Execs : CreateResolved(e)
    \/ \E e \in Execs : StartResolved(e)
    \/ \E e \in Execs : AttachResolved(e)
    \/ \E e \in Execs : PairExit(e)
    \/ \E e \in Execs : WaitResolved(e)
    \/ \E e \in Execs : StatsResolved(e)
    \/ \E e \in Execs : InspectResolved(e)
    \/ \E e \in Execs : RemoveResolved(e)
    \/ \E e \in Execs : RmdirResolved(e)
    \/ \E e \in Execs : SaveResolved(e)
    \/ \E e \in Execs : StatisticsResolved(e)

SpecDaily == InitPair /\ [][NextDaily]_vars


\* ------------------------------------------------ sanitizing the source

\* One anonymous call whose source is any sequence of up to SanitizeLen
\* units of text, line ends and spaces, followed until the sanitized source
\* is written to the workspace file.
SanitizeUnits == {"x", "\\n", "\\r", " "}

SanitizeSources == UNION { [1..k -> SanitizeUnits] : k \in 0..SanitizeLen }

SanitizeArrive(e) ==
    \E code \in SanitizeSources : ExecuteCode(e, "python", code, "", "", NoTimeout)

NextSanitize ==
    \/ \E e \in Execs : SanitizeArrive(e)
    \/ \E e \in Execs : MkdirResolved(e)
    \/ \E e \in Execs : WriteCodeResolved(e)

SpecSanitize == InitOutput /\ [][NextSanitize]_vars


\* ------------------------------------------------- who may kill a call

\* One call of user u1 (DailyArrive), followed to its response on a healthy
\* runtime, and one killExecution for it by a caller without a token, by u1
\* or by another user.
Killers == Users \cup {"u2"}

NextKill ==
    \/ \E e \in Execs : DailyArrive(e)
    \/ \E e \in Execs : MkdirResolved(e)
    \/ \E e \in Execs : WriteCodeResolved(e)
    \/ \E e \in Execs : CreateResolved(e)
    \/ \E e \in Execs : StartResolved(e)
    \/ \E e \in Execs : AttachResolved(e)
    \/ \E e \in Execs : PairExit(e)
    \/ \E e \in Execs : WaitResolved(e)
    \/ \E e \in Execs : WaitRejected(e)
    \/ \E e \in Execs : StatsResolved(e)
    \/ \E e \in Execs : StatsRejected(e)
    \/ \E e \in Execs : InspectResolved(e)
    \/ \E e \in Execs : InspectRejected(e)
    \/ \E e \in Execs : RemoveResolved(e)
    \/ \E e \in Execs : RemoveRejected(e)
    \/ \E e \in Execs : RmdirResolved(e)
    \/ \E e \in Execs : SaveResolved(e)
    \/ \E e \in Execs : StatisticsResolved(e)
    \/ \E e \in Execs, u \in Killers : KillExecution(e, u)
    \/ \E e \in Execs : FindOneResolved(e)
    \/ \E e \in Execs : KillLands(e)
    \/ \E e \in Execs : KillReturns(e)
    \/ \E e \in Execs : KillInspectResolved(e)
    \/ \E e \in Execs : KillRemoveResolved(e)
    \/ \E e \in Execs : KillCleanupRejected(e)

SpecKill == InitOutput /\ [][NextKill]_vars


\* ------------------------------------------------------- cleaning up twice

\* Helpers.cleanupTempDirectory called once more on the directory of a call
\* that has returned: fs.rmdir removes the directory if it is still there;
\* on a missing directory it has nothing to remove, and an ENOENT rejection
\* is caught and logged.  Nothing is thrown.
cleanupTempDirectory(e) ==
    /\ result[e] # NoResult /\ tempDir[e]
    /\ ~obs[e].again
    /\ dir' = [dir EXCEPT ![e] = FALSE]
    /\ obs' = [obs EXCEPT ![e].again = TRUE]
    /\ UNCHANGED <<pc, req, User, now, lastIndex, lastCall, verdict, tempDir, container,
                   cstate, exit, activeContainers, timer, sub, caught, waited,
                   stats, result, response, kpc, faults, kills>>

\* One anonymous call (PairArrive) with failing runtime and file-system
\* requests and a killExecution, so that cleanupContainer runs for the same
\* container in executeCode and in killContainer, and cleanupTempDirectory
\* a second time after the return.
InitTwice == InitFor({1})

NextTwice ==
    \/ \E e \in Execs : PairArrive(e)
    \/ \E e \in Execs : PairExit(e)
    \/ \E e \in Execs : MkdirResolved(e)
    \/ \E e \in Execs : WriteCodeResolved(e)
    \/ \E e \in Execs : CreateResolved(e)
    \/ \E e \in Execs : StartResolved(e)
    \/ \E e \in Execs : AttachResolved(e)
    \/ \E e \in Execs : WaitResolved(e)
    \/ \E e \in Execs : WaitRejected(e)
    \/ \E e \in Execs : StatsResolved(e)
    \/ \E e \in Execs : StatsRejected(e)
    \/ \E e \in Execs : InspectResolved(e)
    \/ \E e \in Execs : InspectRejected(e)
    \/ \E e \in Execs : StopResolved(e)
    \/ \E e \in Execs : StopRejected(e)
    \/ \E e \in Execs : RemoveResolved(e)
    \/ \E e \in Execs : RemoveRejected(e)
    \/ \E e \in Execs : RmdirResolved(e)
    \/ \E e \in Execs : RmdirRejected(e)
    \/ \E e \in Execs : cleanupTempDirectory(e)
    \/ \E e \in Execs : KillExecution(e, "")
    \/ \E e \in Execs : KillLands(e)
    \/ \E e \in Execs : KillReturns(e)
    \/ \E e \in Execs : KillInspectResolved(e)
    \/ \E e \in Execs : KillRemoveResolved(e)
    \/ \E e \in Execs : KillCleanupRejected(e)

SpecTwice == InitTwice /\ [][NextTwice]_vars

\* --------------------------------------------------------------- properties

\* DockerService.executeCode has returned for execution e.
Returned(e) == result[e] # NoResult

\* The container of e exists in the runtime.
Exists(e) == cstate[e] \in {"created", "running", "exited"}

\* C1, as stated: whenever executeCode has returned after creating the
\* per-execution directory, that directory no longer exists.
C1_DirGone ==
    \A e \in Execs : (Returned(e) /\ tempDir[e]) => ~dir[e]

\* C1, amended: whenever executeCode has returned after creating the
\* directory, the directory no longer exists unless fs.rmdir itself failed
\* (the failure is logged and swallowed by cleanupTempDirectory).
C1_DirGoneUnlessRmdirFailed ==
    \A e \in Execs :
        (Returned(e) /\ tempDir[e]) => (~dir[e] \/ obs[e].rmdirFailed)

\* An execution that timed out has returned, and its directory is gone.
C1_Witness ==
    \E e \in Execs :
        /\ Returned(e) /\ tempDir[e] /\ ~dir[e]
        /\ result[e].status = EXECUTION_STATUS.TIMEOUT

\* C2, with the allowance the specification makes for a failing teardown:
\* whenever executeCode has returned after creating a container, that
\* container no longer exists in the runtime, unless a request of
\* cleanupContainer (inspect, stop, remove) hit a fault of the runtime.
C2_ContainerGone ==
    \A e \in Execs :
        (Returned(e) /\ container[e]) =>
            (cstate[e] = "removed" \/ obs[e].teardownFailed)

\* C3: a workspace or a container exists only for a call whose source
\* validateCode accepted.
C3_SandboxOnlyIfAccepted ==
    \A e \in Execs :
        (tempDir[e] \/ container[e] \/ cstate[e] # "none" \/ dir[e]) =>
            (obs[e].screened /\ verdict[e].isValid)

\* A container runs for an accepted source.
C3_Witness ==
    \E e \in Execs : cstate[e] = "running" /\ verdict[e].isValid

\* The units the generic forbidden patterns named by C4 match.
GenericForbidden ==
    {"../", "/etc/passwd", "/proc/", "system(", "exec(", "eval(",
     "Runtime.getRuntime().exec", "ProcessBuilder"}

C5_DeadlineGivesTimeout ==
    \A e \in Execs :
        (Returned(e) /\ obs[e].deadline = "running" /\ exit[e].cause = "deadline")
            => result[e].status = EXECUTION_STATUS.TIMEOUT

\* C6: when the stats queried after termination show the memory at its cap,
\* the result's status is MemoryLimitExceeded.
C6_MemoryCapGivesMemoryLimitExceeded ==
    \A e \in Execs :
        (Returned(e) /\ result[e].memory = "cap")
            => result[e].status = EXECUTION_STATUS.MEMORY_LIMIT_EXCEEDED

\* C7: when the launch command of a compile-then-run language exits nonzero
\* because its compile stage failed, and that exit is what executeCode
\* observed, the result's status is CompilationError.
C7_CompileFailureGivesCompilationError ==
    \A e \in Execs :
        (/\ Returned(e)
         /\ containerConfigs[req[e].language].compiles
         /\ exit[e].cause = "compile"
         /\ result[e].error = Stderr("compile"))
            => result[e].status = EXECUTION_STATUS.COMPILATION_ERROR

\* The execution ended because its process exited by itself: no
\* out-of-memory kill, the deadline timer never fired, no request failed.
OwnExit(e) ==
    /\ exit[e].cause \in {"exit0", "exit1", "compile"}
    /\ obs[e].deadline = "none"
    /\ faults = 0

\* C8: for an execution that ended because its process exited by itself,
\* the status is Success exactly when the exit code is 0 and RuntimeError
\* exactly when it is not, and the reported exit code is the container's;
\* the orchestrator's response carries the same status and exit code.
C8_OwnExitStatus ==
    \A e \in Execs :
        (Returned(e) /\ OwnExit(e)) =>
            /\ (result[e].status = EXECUTION_STATUS.SUCCESS) <=> (exit[e].code = 0)
            /\ (result[e].status = EXECUTION_STATUS.RUNTIME_ERROR) <=> (exit[e].code # 0)
            /\ result[e].exitCode = exit[e].code
            /\ pc[e] = "done" =>
                  /\ response[e].status = result[e].status
                  /\ response[e].exitCode = exit[e].code

\* A failing run has been answered with RuntimeError and its exit code.
C8_Witness ==
    \E e \in Execs :
        /\ pc[e] = "done" /\ Returned(e) /\ OwnExit(e)
        /\ exit[e].code # 0
        /\ response[e].status = EXECUTION_STATUS.RUNTIME_ERROR

\* The status a failure of the supervisor is reported with.
InternalErrorStatus == getErrorStatus("request failed")

\* C9: a call whose source the screener rejected is answered with a status
\* of its own, distinct from the status of an internal error and from
\* RuntimeError, and with the list of violation reasons.
C9_RejectionHasOwnStatus ==
    \A e \in Execs :
        (pc[e] = "done" /\ obs[e].screened /\ ~verdict[e].isValid) =>
            /\ response[e].status \notin
                   {InternalErrorStatus, EXECUTION_STATUS.RUNTIME_ERROR}
            /\ response[e].error[2] = verdict[e].errors

\* C10: at most MAX_CONCURRENT_EXECUTIONS containers are live (created and
\* not yet removed) at any time.
C10_LiveSandboxesCapped ==
    Cardinality({ e \in Execs : Exists(e) }) <= MAX_CONCURRENT_EXECUTIONS

\* C11: a killExecution request by the caller that started the execution,
\* issued while its container is started and not yet reaped, ends by
\* reporting that the execution was terminated.
C11_KillTerminatesInFlight ==
    \A e \in Execs :
        (/\ kpc[e] \in {"true", "false", "thrown"}
         /\ obs[e].killer = req[e].user
         /\ obs[e].killAt = "running")
            => kpc[e] = "true"

\* What belongs to execution b: its position, workspace, container, registry
\* entry, timer and result.
Own(b) ==
    <<pc[b], tempDir[b], dir[b], container[b], cstate[b], exit[b],
      b \in activeContainers, timer[b], sub[b], caught[b], waited[b],
      stats[b], result[b]>>

\* C12: two executions have different workspace directories, and no step of
\* a killExecution of one execution (its lookup, its kill, its cleanup)
\* changes the registry entry, the container, the workspace or the result
\* of another.
C12_KillLeavesOthersAlone ==
    [][\A a, b \in Execs :
          a # b =>
             /\ createTempDirectory(a) # createTempDirectory(b)
             /\ (kpc'[a] # kpc[a] => Own(b)' = Own(b))]_vars

\* One execution was killed and its container removed by killContainer while
\* the other was in flight, and the other has returned Success.
C12_Witness ==
    \E a, b \in Execs :
        /\ a # b
        /\ kpc[a] = "true" /\ exit[a].cause = "killContainer"
        /\ cstate[a] = "removed"
        /\ Returned(b) /\ result[b].status = EXECUTION_STATUS.SUCCESS
        /\ obs[a].killAt = "running"

\* C13: no registry entry survives the executeCode call that inserted it;
\* once every started call has returned the active count is 0.
C13_RegistryEmptyAfterReturn ==
    /\ \A e \in Execs : Returned(e) => e \notin activeContainers
    /\ (\A e \in Execs : Returned(e)) => Cardinality(activeContainers) = 0

\* Both calls have returned, one by the deadline and one after a
\* killExecution, and the registry is empty.
C13_Witness ==
    /\ \A e \in Execs : Returned(e) /\ container[e]
    /\ \E e \in Execs : result[e].status = EXECUTION_STATUS.TIMEOUT
    /\ \E e \in Execs : exit[e].cause = "killContainer"
    /\ activeContainers = {}

\* C14: when a request of cleanupContainer or the removal of the workspace
\* directory failed, executeCode has still returned the result the run
\* determined: after a resolved wait the status and exit code of the
\* container's exit and its stderr, after a caught error that error's
\* result.
C14_CleanupFailureSwallowed ==
    \A e \in Execs :
        (Returned(e) /\ (obs[e].teardownFailed \/ obs[e].rmdirFailed)) =>
            IF obs[e].settled = "resolved"
            THEN /\ result[e].status = ExitStatus(exit[e].code)
                 /\ result[e].exitCode = exit[e].code
                 /\ result[e].error = Stderr(exit[e].cause)
            ELSE result[e] = ErrorReturn(obs[e].settled)

\* A run that exited with 0 returned Success although the removal of its
\* workspace directory failed.
C14_Witness ==
    \E e \in Execs :
        /\ Returned(e) /\ obs[e].rmdirFailed /\ obs[e].settled = "resolved"
        /\ result[e].status = EXECUTION_STATUS.SUCCESS

\* C15: once DockerService.executeCode has returned the run's outcome, the
\* answer of CodeExecutionService.executeCode carries that outcome (status,
\* error, exit code), also when saving the record failed.
C15_SinkFailureKeepsOutcome ==
    \A e \in Execs :
        (pc[e] = "done" /\ Returned(e)) =>
            /\ response[e].status = result[e].status
            /\ response[e].exitCode = result[e].exitCode
            /\ response[e].error[1] = result[e].error

\* C16: an execution whose container was terminated by an external
\* killExecution returns status InternalError, never Success, RuntimeError
\* or Timeout.
C16_ExternalKillGivesInternalError ==
    \A e \in Execs :
        (Returned(e) /\ exit[e].cause = "killContainer") =>
            result[e].status = InternalErrorStatus

\* C17: a Java source is written to the file named after its first public
\* class (else its first class, else Main), and the launch command's compile
\* stage accepts that file.
C17_JavaFileNamedAfterClass ==
    \A e \in Execs :
        (req[e].language = "java" /\ obs[e].written # NoText) =>
            /\ obs[e].fileName = <<extractClassName(obs[e].written), ".java">>
            /\ ~JavacRejects(obs[e].written, obs[e].fileName)

\* C18: the delay of the deadline timer is the body's timeout clipped to the
\* language's default, and the default when the body has none.
C18_DeadlineIsClippedTimeout ==
    \A e \in Execs :
        obs[e].deadlineMs # 0 =>
            obs[e].deadlineMs =
                IF req[e].timeout = NoTimeout
                THEN containerConfigs[req[e].language].timeout
                ELSE Min({req[e].timeout, containerConfigs[req[e].language].timeout})

\* C19: an execution of a program that reads standard input, called with a
\* non-empty input, ends with status Success.
C19_StdinDelivered ==
    \A e \in Execs :
        (Returned(e) /\ ReadsStdin(obs[e].written) /\ req[e].input # "") =>
            result[e].status = EXECUTION_STATUS.SUCCESS

\* C20: no source written to a workspace contains a match of a forbidden
\* pattern.
C20_WrittenSourceIsClean ==
    \A e \in Execs :
        obs[e].written # NoText =>
            \A i \in 1..Len(obs[e].written), p \in PatternIds :
                obs[e].written[i] # FORBIDDEN_PATTERNS[p]

\* The container of e was started and has not been reaped (removed).
Live(e) == cstate[e] \in {"running", "exited"}

\* C21: activeContainers holds an entry for an execution exactly while its
\* container is started and not yet reaped: no entry for a container that was
\* not started, and every started, unreaped container has its entry.
C21_RegistryTracksLiveSandbox ==
    \A e \in Execs : (e \in activeContainers) <=> Live(e)

\* DockerService.executeCode has returned for e from its try block.
ReturnedOutcome(e) == Returned(e) /\ obs[e].settled = "resolved"

\* C22: the stream is attached before the container runs, so whatever the
\* process has written is on the stream or in the buffer, and the stdout
\* returned from the try block is, without its truncation marker, a prefix
\* of what the process wrote (with paths redacted).
C22_AttachedBeforeStart ==
    \A e \in Execs :
        /\ cstate[e] = "running" => sub[e] # "attach"
        /\ sub[e] = "wait" => obs[e].output \o obs[e].stream = obs[e].wrote
        /\ ReturnedOutcome(e) =>
               LET out == result[e].output
                   s == IF out # <<>> /\ out[Len(out)] = Marker
                        THEN SubSeq(out, 1, Len(out) - 1) ELSE out
                   t == Redacted(obs[e].wrote)
               IN /\ Len(s) <= Len(t)
                  /\ \A i \in 1..Len(s) :
                      /\ s[i].n = t[i].n /\ s[i].unit = t[i].unit
                      /\ s[i].len = t[i].len \/ (i = Len(s) /\ s[i].len <= t[i].len)

\* C23: the stats query is made after the container's termination was
\* observed and is answered by the runtime while the container is not yet
\* removed, also with a concurrent killExecution: while the query is
\* outstanding the promise has resolved and the container is exited, not
\* removed.
C23_StatsAfterExitBeforeRemove ==
    \A e \in Execs :
        pc[e] = "stats" => (obs[e].settled = "resolved" /\ cstate[e] = "exited")

\* C24, with the allowance for a teardown request that hit a fault of the
\* runtime: on the try path and on the catch path, while the removal of the
\* workspace directory is under way or done, the container that was created
\* for the execution has been removed.
C24_DestroyAfterReap ==
    \A e \in Execs :
        (container[e] /\ (pc[e] = "rmdir" \/ Returned(e))) =>
            (cstate[e] = "removed" \/ obs[e].teardownFailed)

\* C25: at every moment of the capture the stdout buffer holds at most the
\* output cap, and the returned stdout is at most the cap plus one truncation
\* marker, the marker occurring at most once.
C25_BufferWithinCap ==
    \A e \in Execs :
        /\ Length(obs[e].output) <= MAX_OUTPUT_LENGTH
        /\ Length(result[e].output) <= MAX_OUTPUT_LENGTH + Marker.len
        /\ Cardinality({i \in 1..Len(result[e].output) :
                            result[e].output[i] = Marker}) <= 1

\* A call of cleanupContainer for the container of e has completed: the one
\* of executeCode, or the one of killContainer.
CleanupDone(e) ==
    container[e] /\ (pc[e] = "rmdir" \/ Returned(e) \/ kpc[e] = "true")

\* C26, as stated: once a cleanupContainer call for an execution has
\* completed, another one for the same execution leaves the runtime as the
\* first left it (it removes nothing), and a second cleanupTempDirectory
\* leaves the directory as the first left it.
C26_SecondCleanupChangesNothing ==
    [][\A e \in Execs :
        /\ (CleanupDone(e) /\ Exists(e)) => cstate'[e] # "removed"
        /\ (Returned(e) /\ tempDir[e]) => dir'[e] = dir[e]]_vars

\* C26, amended: a cleanupContainer call that works on a container that is
\* already removed completes without throwing (executeCode goes on to
\* cleanupTempDirectory with the error it had caught, killContainer returns
\* true) and changes neither the registry nor the runtime; a second
\* cleanupTempDirectory on a removed directory changes nothing and the
\* returned result stays.  A second call after a first one that did not
\* get to the remove may still remove what the first left behind.
C26_CleanupAfterReapChangesNothing ==
    [][\A e \in Execs :
        /\ cstate[e] = "removed" =>
            /\ cstate'[e] = "removed"
            /\ activeContainers' \subseteq activeContainers
            /\ kpc[e] \in {"inspect", "stop", "remove"} =>
                   kpc'[e] \in {"inspect", "stop", "remove", "true"}
            /\ pc[e] \in {"inspect", "stop", "remove"} =>
                   /\ pc'[e] \in {"inspect", "stop", "remove", "rmdir"}
                   /\ caught'[e] = caught[e]
        /\ (Returned(e) /\ ~dir[e]) => (~dir'[e] /\ result'[e] = result[e])]_vars

\* killContainer's cleanupContainer has completed on a container that
\* executeCode's cleanupContainer had removed, and cleanupTempDirectory was
\* called a second time on the removed directory.
C26_Witness ==
    \E e \in Execs :
        /\ kpc[e] = "true" /\ obs[e].reaper = "executeCode"
        /\ Returned(e) /\ obs[e].again /\ ~dir[e] /\ ~obs[e].rmdirFailed

\* The call was answered 'Daily execution limit exceeded'.
LimitRejected(e) ==
    pc[e] = "done" /\ response[e].error[1] = "Daily execution limit exceeded"

\* C27: a user who reached the daily limit is blocked on that day only: a
\* call that arrives on a later day than the user's last execution passes
\* the limit check.
C27_LimitLiftedNextDay ==
    \A e \in Execs :
        (req[e].user # "" /\ obs[e].day > req[e].userInfo.lastExecutionDate) =>
            ~LimitRejected(e)

\* C28: on no day does a user run more executions than the daily limit of
\* the role: those run before the first call (on day 0) plus the calls of
\* that day for which a container was created.
C28_RunsWithinDailyLimit ==
    \A u \in DOMAIN User, d \in 0..MaxDays :
        (IF d = 0 THEN AlreadyRun(User[u].role) ELSE 0)
          + Cardinality({e \in Execs : req[e].user = u /\ obs[e].day = d
                                        /\ cstate[e] # "none"})
            <= DailyLimit(User[u].role)

\* C29: the container of a call made by an authenticated user is killed or
\* removed by killContainer only when the killExecution request came from
\* that user.
C29_OnlyOwnerKills ==
    \A e \in Execs :
        (req[e].user # "" /\ (exit[e].cause = "killContainer"
                              \/ obs[e].reaper = "killContainer")) =>
            obs[e].killer = req[e].user

\* C30: sanitizeCode is idempotent: sanitizing the source that was written
\* to the workspace (the result of sanitizeCode) gives the same source.
C30_SanitizeCodeIdempotent ==
    \A e \in Execs :
        obs[e].written # NoText => sanitizeCode(obs[e].written) = obs[e].written

====
